---- MODULE Spec2Model ----
(***************************************************************************)
(* GURU APP backend (src/main.py): users, items and manual till payments   *)
(* kept in three SQLite tables, and the HTTP handlers that read and write  *)
(* them.  Every handler runs in its own Session on a worker thread, so the *)
(* handlers of different requests interleave between their database        *)
(* accesses.  One action of this module is one database access of one      *)
(* handler together with the local computation around it (a session.get    *)
(* or select, a commit, or the reload of an instance that the preceding    *)
(* commit expired).  Of a response only the status code is kept, and of    *)
(* the public listing the rows it returns, so the reload that only fills   *)
(* the body of another response is not a step.                             *)
(*                                                                         *)
(* A commit writes the columns whose assigned value differs from the value *)
(* the session loaded (the unit of work emits an UPDATE for changed        *)
(* attributes only).  Columns the handlers never read or branch on (name,  *)
(* password_hash, title, description, product_type, file_path, image_path, *)
(* amount, till_number, transaction_code, created_at) are left out.        *)
(***************************************************************************)
EXTENDS Integers, Sequences, FiniteSets, TLC

\* ---------------------------------------------------------------- bounds
\* rows a table may hold, and requests a run receives
MaxUsers == 2
MaxItems == 1
MaxPayments == 1
MaxRequests == 4

\* ------------------------------------------------------- input alphabets
\* two requests may be in flight at once; ids range one past the last row
Workers == {1, 2}
Emails == {"a@x", "b@x"}
Roles == {"buyer", "seller"}
Prices == {-1, 1}
PaymentTypes == {"listing_fee", "subscription"}
ADMIN_KEY == "change_this_to_secure_key"
AdminKeys == {ADMIN_KEY, "bad_key"}
UserIds == 1..(MaxUsers + 1)
ItemIds == 1..(MaxItems + 1)
PaymentIds == 1..(MaxPayments + 1)

VARIABLES users, items, payments, req, n

db == <<users, items, payments>>
vars == <<users, items, payments, req, n>>

\* ------------------------------------------------------------- responses
\* A worker that has answered keeps the handler's name and the status code of
\* its response (200 for a return, else the HTTPException's status_code).
Idle == [pc |-> "idle"]
HTTPException(handler, status_code) ==
    [pc |-> "done", handler |-> handler, status_code |-> status_code]
Ok(handler) == HTTPException(handler, 200)

At(w, pc) == req[w].pc = pc
Set(w, r) == req' = [req EXCEPT ![w] = r]

\* A request is handed to the first idle worker of the pool.
Free(w) == At(w, "idle") /\ \A v \in Workers : v < w => ~At(v, "idle")

\* Sending a response touches no table, so it is taken as the very next step.
Quiet == \A w \in Workers : ~At(w, "done")

\* n counts the requests received; a run handles at most MaxRequests.
Begin(w) == Quiet /\ Free(w) /\ n < MaxRequests /\ n' = n + 1
Step(w, pc) == Quiet /\ At(w, pc) /\ n' = n

\* Requests that have passed their checks and still hold an INSERT to commit.
Inserting(pc) == Cardinality({w \in Workers : req[w].pc = pc})

\* ---------------------------------------------------------------- tables
User(email, role, approved) ==
    [email |-> email, role |-> role, approved |-> approved]
Item(owner_id, price) ==
    [owner_id |-> owner_id, price |-> price, paid |-> FALSE, active |-> FALSE]
PaymentMutant(user_id, type) ==
    [user_id |-> user_id, type |-> type, status |-> "verified"]
Payment(user_id, type) ==
    [user_id |-> user_id, type |-> type, status |-> "pending"]

\* select(User).where(User.email == email) ... .first(); 0 stands for None
get_user_by_email(email) ==
    LET hits == {i \in DOMAIN users : users[i].email = email}
    IN IF hits = {} THEN 0 ELSE CHOOSE i \in hits : \A j \in hits : i <= j

\* guru.db outlives the process and create_all keeps its rows: the run starts
\* on empty tables or on what an earlier run left, here one seller an admin
\* has approved.
Init ==
    /\ users \in {<<>>, <<User("a@x", "seller", TRUE)>>}
    /\ items = <<>>
    /\ payments = <<>>
    /\ req = [w \in Workers |-> Idle]
    /\ n = 0

\* ------------------------------------------------------ public endpoints
\* approved=False if payload.role == "seller" else True
RegisterApprovedMutant(role) == TRUE
RegisterApproved(role) == role # "seller"

\* POST /auth/register, up to the duplicate-email check
register_check(w, email, role) ==
    /\ Begin(w)
    /\ IF get_user_by_email(email) # 0
       THEN Set(w, HTTPException("register", 400))
       ELSE /\ Len(users) + Inserting("register_commit") < MaxUsers
            /\ Set(w, [pc |-> "register_commit", email |-> email, role |-> role])
    /\ UNCHANGED db

\* session.add(user); session.commit(); the response carries user.approved
register_commit(w) ==
    /\ Step(w, "register_commit")
    /\ users' = Append(users,
                       User(req[w].email, req[w].role, RegisterApproved(req[w].role)))
    /\ Set(w, Ok("register"))
    /\ UNCHANGED <<items, payments>>

\* POST /auth/login; password_ok is the outcome of verify_password
login(w, email, password_ok) ==
    /\ Begin(w)
    /\ LET user == get_user_by_email(email)
       IN IF user = 0 \/ ~password_ok
          THEN Set(w, HTTPException("login", 401))
          ELSE Set(w, Ok("login"))
    /\ UNCHANGED db

\* if not owner.approved (main.py:174)
NotApprovedMutant(owner_id) == FALSE
NotApproved(owner_id) == ~users[owner_id].approved

\* POST /items/create, up to the owner checks
create_item_check(w, owner_id, price) ==
    /\ Begin(w)
    /\ IF owner_id \notin DOMAIN users
       THEN Set(w, HTTPException("create_item", 404))
       ELSE IF users[owner_id].role # "seller"
       THEN Set(w, HTTPException("create_item", 403))
       ELSE IF NotApproved(owner_id)
       THEN Set(w, HTTPException("create_item", 403))
       ELSE /\ Len(items) + Inserting("create_item_commit") < MaxItems
            /\ Set(w, [pc |-> "create_item_commit", owner_id |-> owner_id,
                       price |-> price])
    /\ UNCHANGED db

\* session.add(item); session.commit()
create_item_commit(w) ==
    /\ Step(w, "create_item_commit")
    /\ items' = Append(items, Item(req[w].owner_id, req[w].price))
    /\ Set(w, Ok("create_item"))
    /\ UNCHANGED <<users, payments>>

\* select(Item).where(Item.active == True): the ids of the rows it returns
ActiveItems == {i \in DOMAIN items : items[i].active}

\* GET /items/list: one SELECT; the response carries the rows as its body
list_items(w) ==
    /\ Begin(w)
    /\ Set(w, [pc |-> "done", handler |-> "list_items", status_code |-> 200,
               body |-> ActiveItems])
    /\ UNCHANGED db

\* POST /payments/manual, up to the user check
manual_payment_check(w, user_id, type) ==
    /\ Begin(w)
    /\ IF user_id \notin DOMAIN users
       THEN Set(w, HTTPException("manual_payment", 404))
       ELSE /\ Len(payments) + Inserting("manual_payment_commit") < MaxPayments
            /\ Set(w, [pc |-> "manual_payment_commit", user_id |-> user_id,
                       type |-> type])
    /\ UNCHANGED db

\* session.add(payment); session.commit()
manual_payment_commit(w) ==
    /\ Step(w, "manual_payment_commit")
    /\ payments' = Append(payments, Payment(req[w].user_id, req[w].type))
    /\ Set(w, Ok("manual_payment"))
    /\ UNCHANGED <<users, items>>

\* ------------------------------------------------------- admin endpoints
\* check_admin, and the handlers' own comparison of the header
check_adminMutant(x_admin_key) == TRUE
check_admin(x_admin_key) == x_admin_key = ADMIN_KEY

\* GET /admin/payments, /admin/items, /admin/users: read-only listings
admin_list(w, table, x_admin_key) ==
    /\ Begin(w)
    /\ IF ~check_admin(x_admin_key)
       THEN Set(w, HTTPException("admin_list", 403))
       ELSE Set(w, Ok("admin_list"))
    /\ UNCHANGED db

\* p.status = "verified" if verified else "rejected"
DecidedStatus(verified) == IF verified THEN "verified" ELSE "rejected"

\* if p.type == "listing_fee" and p.status == "verified"
CascadeAppliesMutant(p) == p.status = "verified"
CascadeApplies(p) == p.type = "listing_fee" /\ p.status = "verified"

\* if owner and owner.role == "seller" and not owner.approved
OwnerNeedsApproval(user_id) ==
    /\ user_id \in DOMAIN users
    /\ users[user_id].role = "seller"
    /\ ~users[user_id].approved

\* raise HTTPException(status_code=404, detail="Payment not found")
PaymentNotFoundMutant == Ok("admin_verify_payment")
PaymentNotFound == HTTPException("admin_verify_payment", 404)

\* POST /admin/payments/{payment_id}/verify: key check and session.get(Payment);
\* loaded is the status the Session holds for p
admin_verify_payment_get(w, payment_id, verified, x_admin_key) ==
    /\ Begin(w)
    /\ IF ~check_admin(x_admin_key)
       THEN Set(w, HTTPException("admin_verify_payment", 403))
       ELSE IF payment_id \notin DOMAIN payments
       THEN Set(w, PaymentNotFound)
       ELSE Set(w, [pc |-> "verify_commit", payment_id |-> payment_id,
                    verified |-> verified,
                    loaded |-> payments[payment_id].status])
    /\ UNCHANGED db

\* p.status = ...; session.add(p); session.commit()
admin_verify_payment_commit(w) ==
    /\ Step(w, "verify_commit")
    /\ LET r == req[w]
           new == DecidedStatus(r.verified)
       IN /\ payments' = IF new # r.loaded
                         THEN [payments EXCEPT ![r.payment_id].status = new]
                         ELSE payments
          /\ Set(w, [r EXCEPT !.pc = "verify_refresh"])
    /\ UNCHANGED <<users, items>>

\* p.type and p.status are read from the row again: the commit expired p
admin_verify_payment_refresh(w) ==
    /\ Step(w, "verify_refresh")
    /\ LET r == req[w]
           p == payments[r.payment_id]
       IN IF CascadeApplies(p)
          THEN Set(w, [r EXCEPT !.pc = "verify_owner"])
          ELSE Set(w, Ok("admin_verify_payment"))
    /\ UNCHANGED db

\* owner = session.get(User, p.user_id) and the test on it
admin_verify_payment_owner(w) ==
    /\ Step(w, "verify_owner")
    /\ LET r == req[w]
           p == payments[r.payment_id]
       IN IF OwnerNeedsApproval(p.user_id)
          THEN Set(w, [r EXCEPT !.pc = "verify_approve"])
          ELSE Set(w, Ok("admin_verify_payment"))
    /\ UNCHANGED db

\* owner.approved = True; session.add(owner); session.commit()
admin_verify_payment_approve(w) ==
    /\ Step(w, "verify_approve")
    /\ LET r == req[w]
           owner == payments[r.payment_id].user_id
       IN /\ users' = [users EXCEPT ![owner].approved = TRUE]
          /\ Set(w, Ok("admin_verify_payment"))
    /\ UNCHANGED <<items, payments>>

\* item.paid = True if activate else item.paid
ActivatePaidMutant(activate, paid) == paid
ActivatePaid(activate, paid) == IF activate THEN TRUE ELSE paid

\* item.active = True if activate else False
ActivateActive(activate) == IF activate THEN TRUE ELSE FALSE

\* POST /admin/items/{item_id}/activate: key check and session.get(Item)
admin_activate_item_get(w, item_id, activate, x_admin_key) ==
    /\ Begin(w)
    /\ IF ~check_admin(x_admin_key)
       THEN Set(w, HTTPException("admin_activate_item", 403))
       ELSE IF item_id \notin DOMAIN items
       THEN Set(w, HTTPException("admin_activate_item", 404))
       ELSE Set(w, [pc |-> "activate_commit", item_id |-> item_id,
                    activate |-> activate,
                    paid |-> items[item_id].paid,
                    active |-> items[item_id].active])
    /\ UNCHANGED db

\* item.paid = ...; item.active = ...; session.add(item); session.commit()
admin_activate_item_commit(w) ==
    /\ Step(w, "activate_commit")
    /\ LET r == req[w]
           paid == ActivatePaid(r.activate, r.paid)
           active == ActivateActive(r.activate)
           row == items[r.item_id]
       IN /\ items' = [items EXCEPT ![r.item_id] =
                         [row EXCEPT
                            !.paid = IF paid # r.paid THEN paid ELSE row.paid,
                            !.active = IF active # r.active THEN active
                                       ELSE row.active]]
          /\ Set(w, Ok("admin_activate_item"))
    /\ UNCHANGED <<users, payments>>

\* user.approved = True if approve else False
ApproveValue(approve) == IF approve THEN TRUE ELSE FALSE

\* POST /admin/users/{user_id}/approve: key check and session.get(User)
admin_approve_user_get(w, user_id, approve, x_admin_key) ==
    /\ Begin(w)
    /\ IF ~check_admin(x_admin_key)
       THEN Set(w, HTTPException("admin_approve_user", 403))
       ELSE IF user_id \notin DOMAIN users
       THEN Set(w, HTTPException("admin_approve_user", 404))
       ELSE Set(w, [pc |-> "approve_commit", user_id |-> user_id,
                    approve |-> approve,
                    approved |-> users[user_id].approved])
    /\ UNCHANGED db

\* user.approved = ...; session.add(user); session.commit()
admin_approve_user_commit(w) ==
    /\ Step(w, "approve_commit")
    /\ LET r == req[w]
           approved == ApproveValue(r.approve)
       IN /\ users' = IF approved # r.approved
                      THEN [users EXCEPT ![r.user_id].approved = approved]
                      ELSE users
          /\ Set(w, Ok("admin_approve_user"))
    /\ UNCHANGED <<items, payments>>

\* ------------------------------------------------------------ the system
\* the response leaves the worker; its Session is closed by get_session
respond(w) ==
    /\ At(w, "done")
    /\ Set(w, Idle)
    /\ UNCHANGED <<db, n>>

Next ==
    \E w \in Workers :
        \/ respond(w)
        \/ \E email \in Emails, role \in Roles : register_check(w, email, role)
        \/ register_commit(w)
        \/ \E email \in Emails, password_ok \in BOOLEAN :
              login(w, email, password_ok)
        \/ \E owner_id \in UserIds, price \in Prices :
              create_item_check(w, owner_id, price)
        \/ create_item_commit(w)
        \/ list_items(w)
        \/ \E user_id \in UserIds, type \in PaymentTypes :
              manual_payment_check(w, user_id, type)
        \/ manual_payment_commit(w)
        \/ \E table \in {"payments", "items", "users"}, key \in AdminKeys :
              admin_list(w, table, key)
        \/ \E payment_id \in PaymentIds, verified \in BOOLEAN, key \in AdminKeys :
              admin_verify_payment_get(w, payment_id, verified, key)
        \/ admin_verify_payment_commit(w)
        \/ admin_verify_payment_refresh(w)
        \/ admin_verify_payment_owner(w)
        \/ admin_verify_payment_approve(w)
        \/ \E item_id \in ItemIds, activate \in BOOLEAN, key \in AdminKeys :
              admin_activate_item_get(w, item_id, activate, key)
        \/ admin_activate_item_commit(w)
        \/ \E user_id \in UserIds, approve \in BOOLEAN, key \in AdminKeys :
              admin_approve_user_get(w, user_id, approve, key)
        \/ admin_approve_user_commit(w)

Spec == Init /\ [][Next]_vars

\* ------------------------------------------------------------ properties
VerifyPcs == {"verify_commit", "verify_refresh", "verify_owner", "verify_approve"}

\* worker w is inside admin_verify_payment, after its session.get(Payment)
Deciding(w) == req[w].pc \in VerifyPcs
\* the step is one of worker w's
Moves(w) == req'[w].pc # req[w].pc
\* the step ends worker w's handler
Completes(w) == ~At(w, "done") /\ req'[w].pc = "done"
Answered(w, handler, status_code) ==
    At(w, "done") /\ req[w].handler = handler /\ req[w].status_code = status_code

\* C1: once a claim's status is verified or rejected, no step changes it.
C1_DecidedOnce ==
    [][\A p \in DOMAIN payments :
          payments[p].status # "pending"
              => payments'[p].status = payments[p].status]_vars

\* C2: of two decisions on one pending claim only one is applied: a request
\* that loaded the claim as pending commits its decision only while the
\* claim is still pending.
C2_OneDecisionApplies ==
    [][\A w \in Workers :
          (At(w, "verify_commit") /\ Moves(w) /\ req[w].loaded = "pending")
              => payments[req[w].payment_id].status = "pending"]_vars

\* worker w has committed verified on a listing_fee claim of an unapproved
\* seller and has not yet committed the seller's approval
CascadePending(w) ==
    /\ req[w].pc \in VerifyPcs \ {"verify_commit"}
    /\ req[w].verified
    /\ CascadeApplies(payments[req[w].payment_id])
    /\ OwnerNeedsApproval(payments[req[w].payment_id].user_id)

\* C3: decision and cascade are one atomic unit: while a request is between
\* the two writes and no other request is in flight, no other request starts
\* (so none reads the claim verified with its seller still unapproved).
C3_CascadeAtomic ==
    [][\A w \in Workers :
          (CascadePending(w) /\ \A v \in Workers \ {w} : At(v, "idle"))
              => \A v \in Workers \ {w} : ~Moves(v)]_vars

\* C4: every active item is paid.
C4_ActiveImpliesPaid ==
    \A i \in DOMAIN items : items[i].active => items[i].paid

C4_Witness ==
    \E i \in DOMAIN items : items[i].active /\ items[i].paid

\* C5: no item is active while its owner is unapproved.
C5_ActiveImpliesApproved ==
    \A i \in DOMAIN items : items[i].active => users[items[i].owner_id].approved

\* C6: a verify request that loaded a listing_fee claim of a seller as pending
\* ends with that seller approved, and none of its steps changes another user.
C6_VerifyApprovesSeller ==
    [][\A w \in Workers :
          (Deciding(w) /\ Moves(w) /\ req[w].verified /\ req[w].loaded = "pending")
              => LET p == payments[req[w].payment_id]
                 IN /\ \A u \in DOMAIN users \ {p.user_id} : users'[u] = users[u]
                    /\ (Completes(w) /\ p.type = "listing_fee"
                            /\ users[p.user_id].role = "seller")
                           => users'[p.user_id].approved]_vars

\* C7: no step of a request with verified=false changes a user or an item.
C7_RejectFrame ==
    [][\A w \in Workers :
          (Deciding(w) /\ Moves(w) /\ ~req[w].verified)
              => users' = users /\ items' = items]_vars

\* C8: a decision on a payment id that has no row answers 404 in its first
\* step and changes no table, and a request gets past the lookup (towards the
\* status write and the cascade) only with the id of a stored row.
C8_UnknownClaim ==
    [][\A w \in Workers :
          /\ \A payment_id \in PaymentIds \ DOMAIN payments, verified \in BOOLEAN :
                (At(w, "idle") /\ Moves(w)
                   /\ admin_verify_payment_get(w, payment_id, verified, ADMIN_KEY))
                    => /\ req'[w].pc = "done"
                       /\ req'[w].status_code = 404
                       /\ UNCHANGED db
          /\ (~Deciding(w) /\ req'[w].pc \in VerifyPcs)
                => req'[w].payment_id \in DOMAIN payments]_vars

C8_Witness ==
    /\ users # <<>>
    /\ \E w \in Workers : Answered(w, "admin_verify_payment", 404)

\* the owner's latest inactive item; 0 when there is none
LatestInactiveItem(owner_id) ==
    LET mine == {i \in DOMAIN items :
                    items[i].owner_id = owner_id /\ ~items[i].active}
    IN IF mine = {} THEN 0 ELSE CHOOSE i \in mine : \A j \in mine : j <= i

\* C9: when a verify request on a listing_fee claim ends with the claim
\* verified, the owner's latest inactive item is active and paid.
C9_VerifyActivatesItem ==
    [][\A w \in Workers :
          (Deciding(w) /\ Completes(w) /\ req[w].verified
             /\ CascadeApplies(payments'[req[w].payment_id]))
              => LET i == LatestInactiveItem(payments[req[w].payment_id].user_id)
                 IN i # 0 => items'[i].active /\ items'[i].paid]_vars

\* C10: the user a registration adds is unapproved if a seller and approved
\* if a buyer.
C10_RegisterApproval ==
    [][Len(users') > Len(users)
          => LET user == users'[Len(users')]
             IN /\ user.role = "seller" => ~user.approved
                /\ user.role = "buyer" => user.approved]_vars

C10_Witness ==
    /\ Len(users) = 2
    /\ users[1].role = "buyer" /\ users[1].approved
    /\ users[2].role = "seller" /\ ~users[2].approved
    /\ \E w \in Workers : Answered(w, "register", 200)

\* the step is worker w's commit of user.approved = True on user u (main.py:301)
AdminApproves(w, u) ==
    At(w, "approve_commit") /\ Moves(w) /\ req[w].approve /\ req[w].user_id = u

\* the step is the cascade write (main.py:266) of a request with verified=true
\* on a listing_fee claim that user u owns
VerifyApproves(w, u) ==
    /\ At(w, "verify_approve") /\ Moves(w) /\ req[w].verified
    /\ payments[req[w].payment_id].type = "listing_fee"
    /\ payments[req[w].payment_id].user_id = u

\* C11: a step that turns a seller's approved flag from false to true is the
\* write of an admin_approve_user request with approve=true for that seller or
\* of a verify decision on a listing_fee claim the seller owns; no step of any
\* other request (a reject decision among them) sets it.
C11_ApprovalSources ==
    [][\A u \in DOMAIN users :
          (users[u].role = "seller" /\ ~users[u].approved /\ users'[u].approved)
              => \E w \in Workers : AdminApproves(w, u) \/ VerifyApproves(w, u)]_vars

\* the step is worker w's session.commit() in admin_activate_item for item i
ActivationCommits(w, i) ==
    At(w, "activate_commit") /\ Moves(w) /\ req[w].item_id = i

\* C12: the commit of a deactivation leaves the item with active=false and
\* its paid flag as it was, the commit of an activation leaves it with
\* active=true and paid=true, and no step at all turns paid from true to false.
C12_DeactivationKeepsPaid ==
    [][\A i \in DOMAIN items :
          /\ items[i].paid => items'[i].paid
          /\ \A w \in Workers :
                ActivationCommits(w, i)
                    => /\ items'[i].active = req[w].activate
                       /\ ~req[w].activate => items'[i].paid = items[i].paid
                       /\ req[w].activate => items'[i].paid]_vars

\* C13: create_item answers 404 for an owner id with no row, 403 for an owner
\* that is not a seller and 403 for a seller that is not approved, each time
\* leaving the items as they are; a request gets past the checks only for a
\* stored, approved seller; an item is added only by such a request, for that
\* owner; and every stored item's owner is a stored user with role seller.
C13_CreateItemChecks ==
    [][/\ \A w \in Workers :
            /\ \A owner_id \in UserIds, price \in Prices :
                  (At(w, "idle") /\ Moves(w) /\ create_item_check(w, owner_id, price))
                      => LET Fails(status_code) ==
                                 /\ req'[w].pc = "done"
                                 /\ req'[w].status_code = status_code
                                 /\ items' = items
                         IN IF owner_id \notin DOMAIN users THEN Fails(404)
                            ELSE IF users[owner_id].role # "seller" THEN Fails(403)
                            ELSE IF ~users[owner_id].approved THEN Fails(403)
                            ELSE req'[w].pc = "create_item_commit"
            /\ (~At(w, "create_item_commit") /\ req'[w].pc = "create_item_commit")
                  => /\ req'[w].owner_id \in DOMAIN users
                     /\ users[req'[w].owner_id].role = "seller"
                     /\ users[req'[w].owner_id].approved
       /\ Len(items') > Len(items)
            => \E w \in Workers :
                  /\ At(w, "create_item_commit") /\ Moves(w)
                  /\ items'[Len(items')].owner_id = req[w].owner_id
       /\ \A i \in DOMAIN items' :
            /\ items'[i].owner_id \in DOMAIN users'
            /\ users'[items'[i].owner_id].role = "seller"]_vars

\* an item is stored, its owner has been un-approved since, and a further
\* create_item for an unapproved seller has been refused
C13_Witness ==
    /\ \E i \in DOMAIN items : ~users[items[i].owner_id].approved
    /\ \E w \in Workers : Answered(w, "create_item", 403)

\* C14: no two user rows hold the same email.
C14_UniqueEmail ==
    \A i, j \in DOMAIN users : i # j => users[i].email # users[j].email

\* the step answers worker w with 403 and writes no table
Forbidden(w) ==
    /\ req'[w].pc = "done"
    /\ req'[w].status_code = 403
    /\ UNCHANGED db

\* C15: an admin request (payment, item or user listing; payment decision;
\* item activation; user approval) whose key header differs from ADMIN_KEY is
\* answered 403 in its first step and changes no user, item or payment.
C15_WrongKeyForbidden ==
    [][\A w \in Workers, key \in AdminKeys \ {ADMIN_KEY} :
          (At(w, "idle") /\ Moves(w))
              => /\ \A table \in {"payments", "items", "users"} :
                       admin_list(w, table, key) => Forbidden(w)
                 /\ \A payment_id \in PaymentIds, verified \in BOOLEAN :
                       admin_verify_payment_get(w, payment_id, verified, key)
                           => Forbidden(w)
                 /\ \A item_id \in ItemIds, activate \in BOOLEAN :
                       admin_activate_item_get(w, item_id, activate, key)
                           => Forbidden(w)
                 /\ \A user_id \in UserIds, approve \in BOOLEAN :
                       admin_approve_user_get(w, user_id, approve, key)
                           => Forbidden(w)]_vars

\* every table holds a row and an item activation has been refused
C15_Witness ==
    /\ users # <<>> /\ items # <<>> /\ payments # <<>>
    /\ \E w \in Workers : Answered(w, "admin_activate_item", 403)

\* C16: manual_payment for a user id with no row answers 404 and writes no
\* table; for a stored user it writes nothing before its commit, and the commit
\* appends one claim with the submitted owner and type and status pending,
\* changing no user and no item; a claim is added by no other step; and every
\* stored claim's owner is a stored user.
C16_ClaimStartsPending ==
    [][/\ \A w \in Workers :
            /\ \A user_id \in UserIds, type \in PaymentTypes :
                  (At(w, "idle") /\ Moves(w) /\ manual_payment_check(w, user_id, type))
                      => /\ UNCHANGED db
                         /\ IF user_id \in DOMAIN users
                            THEN req'[w].pc = "manual_payment_commit"
                            ELSE req'[w].pc = "done" /\ req'[w].status_code = 404
            /\ (At(w, "manual_payment_commit") /\ Moves(w))
                  => /\ payments' = Append(payments,
                            [user_id |-> req[w].user_id, type |-> req[w].type,
                             status |-> "pending"])
                     /\ users' = users /\ items' = items
                     /\ req'[w].pc = "done" /\ req'[w].status_code = 200
       /\ Len(payments') > Len(payments)
            => \E w \in Workers : At(w, "manual_payment_commit") /\ Moves(w)
       /\ \A p \in DOMAIN payments' : payments'[p].user_id \in DOMAIN users']_vars

\* a claim has just been recorded and is pending
C16_Witness ==
    /\ payments # <<>> /\ payments[Len(payments)].status = "pending"
    /\ \E w \in Workers : Answered(w, "manual_payment", 200)

\* C17: every stored item has a non-negative price.
C17_PriceNonNegative ==
    \A i \in DOMAIN items : items[i].price >= 0

\* C18: no step of a verify request that loaded its claim already decided
\* (verified or rejected) changes a user's approved flag.
C18_NoCascadeOnDecided ==
    [][\A w \in Workers :
          (Deciding(w) /\ Moves(w) /\ req[w].verified /\ req[w].loaded # "pending")
              => \A u \in DOMAIN users : users'[u].approved = users[u].approved]_vars

\* C19: no step of a verify request on a claim that is not a listing_fee
\* claim, or whose owner is not a seller, changes a user's approved flag or an
\* item.
C19_CascadeOnlyListingFeeOfSeller ==
    [][\A w \in Workers :
          (Deciding(w) /\ Moves(w) /\ req[w].verified)
              => LET p == payments[req[w].payment_id]
                 IN (p.type # "listing_fee" \/ users[p.user_id].role # "seller")
                       => /\ \A u \in DOMAIN users :
                                users'[u].approved = users[u].approved
                          /\ items' = items]_vars

\* a subscription claim of an unapproved seller has just been verified and
\* the seller is still unapproved
C19_Witness ==
    \E w \in Workers, p \in DOMAIN payments :
        /\ Answered(w, "admin_verify_payment", 200)
        /\ payments[p].status = "verified"
        /\ payments[p].type # "listing_fee"
        /\ users[payments[p].user_id].role = "seller"
        /\ ~users[payments[p].user_id].approved

\* C20: list_items returns exactly the items that are active when it runs; an
\* item is created unpaid and inactive, so outside the listing; it enters the
\* listing only by the commit of an activation of that item; and the commit
\* of a deactivation leaves it outside the listing.
C20_ListingIsActiveItems ==
    [][/\ \A w \in Workers :
            (At(w, "idle") /\ Moves(w) /\ list_items(w))
                => req'[w].body = {i \in DOMAIN items : items[i].active}
       /\ Len(items') > Len(items)
            => /\ ~items'[Len(items')].paid
               /\ Len(items') \notin ActiveItems'
       /\ \A i \in DOMAIN items :
            (i \notin ActiveItems /\ i \in ActiveItems')
                => \E w \in Workers : ActivationCommits(w, i) /\ req[w].activate
       /\ \A i \in DOMAIN items, w \in Workers :
            (ActivationCommits(w, i) /\ ~req[w].activate)
                => i \notin ActiveItems']_vars

====
